---- MODULE Spec2Model ----
(***************************************************************************)
(* Alltrader: the layered-entry risk manager (engine/online/rms.py and     *)
(* engine/backtest/rms.py), the order manager (engine/online/oms.py), the  *)
(* live trading state machine (engine/trader.py) and the backtest loop     *)
(* (engine/backtest/backtest.py).                                          *)
(*                                                                         *)
(* Numbers.  Prices are positive integers (ticks), quantities are integer  *)
(* multiples of a lot.  Fractions (reverse_pct, tp_pct, trail_pct,         *)
(* pnl_pct) are kept in basis points, 1 bp = 0.0001: every table entry of  *)
(* the source is a whole number of bp.  A comparison of a price fraction   *)
(* with a table entry is made exactly, by cross-multiplication; pnl_pct is *)
(* stored floored to a whole bp, which leaves pnl_pct < tp_pct exact.      *)
(* None is the empty tuple, a value v that may be None is <<v>>.           *)
(***************************************************************************)
EXTENDS Integers, Sequences, FiniteSets, TLC

VARIABLES
    kind,           \* which RiskManager class: "online" or "backtest"
    positions,      \* RiskManager.positions: sequence of [price, qty]
    trailing_peak,  \* RiskManager.trailing_peak: None or <<bp>>
    base_qty,       \* the base_qty argument of the run, in lots
    call,           \* the last RiskManager call: [name, ret (a bool result), qty (add_position's result)]
    nAdds,          \* add_position calls since the ladder was created or reset
    triggered,      \* a check_take_profit call since the reset saw pnl_pct >= tp_pct and returned False
    \* --- trading_main (engine/trader.py) and engine/online/oms.py
    pc,             \* where trading_main is: "off", "loop", "place", "poll", "crashed"
    crash,          \* the exception that ended trading_main ("" while it runs)
    state_machine,  \* "signal", "oms", "rms"
    position,       \* 0, 1, -1
    entry_price,    \* a price or NoPrice
    oms_action,     \* "none" (unbound), "long", "short", "close_long", "close_short"
    oms_qty,        \* lots (0 while unbound)
    oms_price,      \* a price or NoPrice
    last_price,     \* OKXWsTicker.last_price: a price or NoPrice
    attempt,        \* the loop index of OrderManager's retry loop
    order_state,    \* the state of the last placed order at the exchange ("none": no order)
    polls,          \* completed iterations of wait_order_filled's loop
    cancels,        \* cancel_order requests of the current wait_order_filled call
    port_log,       \* outcomes of the place_futures_market_order calls of the current submission
    submit_ret,     \* how the current submission ended: "none", "returned", "raised"
    last_reply,     \* what the last get_order call of the current wait gave ("none" before it)
    wait_ret,       \* the result of the current wait_order_filled call: "none", "true", "false"
    intent_src,     \* the state that queued the current intent: "none", "signal", "rms"
    n_signals,      \* directional signals acted on
    \* --- Backtester.run_dynamic (engine/backtest/backtest.py)
    bt_pc,          \* "off", "run", "done", "error" (an exception ended the run)
    n_bars,         \* len(df_1m)
    current_idx,
    n15,            \* len(current_15m_data)
    n60,            \* len(current_1h_data)
    close15,        \* signal_df_15m['close'].iloc[-1]
    current_signal,
    current_position,
    bt_entry_price, \* entry_price of run_dynamic (NoPrice: None)
    leverage,
    realized_pnl,   \* in 1/10000 lot
    trade_records,  \* sequence of trade records
    equity_n,       \* len(self.equity_curve)
    equity_last,    \* self.equity_curve[-1]: [realized_pnl, unrealized_pnl, total_pnl]
    last_close,     \* the close of the last bar read
    n_opened,       \* positions opened so far in the run (times lines 101-108 ran)
    bt_event,       \* what the last bar did: "none", "open", "liquidation", "add",
                    \* "forced_exit", "take_profit", "hold", "flat", "final_close", "end"
    \* --- OKXWsTicker / OKXWsKline (connector/okx_ws_ticker.py), one object of each
    f_thread,       \* where the thread of start() is: "none" (self._thread is None),
                    \* "line45", "line52", "run_forever", "ended"
    f_ws,           \* self._ws: "none", "app", "closing" (close() was called and is honoured)
    f_stop,         \* where the caller of stop() is: "idle", "line58", "line60", "returned"
    f_last_price    \* self.last_price

None == << >>

Some(v) == << v >>

\* ------------------------------------------------------------------------
\* RiskManager tables
\* ------------------------------------------------------------------------

\* engine/online/rms.py: self.layers, (multiplier, reverse_pct in bp)
OnlineLayers ==
    << <<1, 0>>, <<1, 10>>, <<2, 20>>, <<4, 20>>, <<2, 20>>, <<2, 20>>,
       <<10, 50>>, <<5, 30>>, <<5, 30>>, <<15, 70>>, <<15, 40>>, <<15, 40>>,
       <<20, 100>> >>

\* engine/online/rms.py: self.tp_rules, (tp_pct, trail_pct) in bp
OnlineTpRules ==
    << <<10, 4>>, <<10, 3>>, <<10, 3>>, <<10, 3>>, <<12, 4>>, <<12, 4>>,
       <<12, 4>>, <<14, 6>>, <<14, 6>>, <<14, 6>>, <<16, 8>>, <<16, 8>>,
       <<16, 8>> >>

\* engine/backtest/rms.py: self.layers, (multiplier, reverse_pct in bp)
BacktestLayers ==
    << <<1, 100>>, <<2, 200>>, <<4, 200>>, <<2, 200>>, <<2, 200>>,
       <<10, 500>>, <<5, 300>>, <<5, 300>>, <<15, 700>>, <<15, 400>>,
       <<15, 400>>, <<20, 1000>> >>

\* engine/backtest/rms.py: self.tp_rules, (tp_pct, trail_pct) in bp
BacktestTpRules ==
    << <<100, 40>>, <<100, 30>>, <<100, 30>>, <<100, 30>>, <<120, 40>>,
       <<120, 40>>, <<120, 40>>, <<140, 60>>, <<140, 60>>, <<140, 60>>,
       <<160, 80>>, <<160, 80>>, <<160, 80>> >>

Layers(k) == IF k = "online" THEN OnlineLayers ELSE BacktestLayers

TpRules(k) == IF k = "online" THEN OnlineTpRules ELSE BacktestTpRules

\* ------------------------------------------------------------------------
\* RiskManager methods, as functions of the ladder state and the arguments
\* ------------------------------------------------------------------------

RECURSIVE SumQty(_)
SumQty(ps) == IF ps = << >> THEN 0 ELSE Head(ps).qty + SumQty(Tail(ps))

RECURSIVE SumNotional(_)
SumNotional(ps) ==
    IF ps = << >> THEN 0 ELSE Head(ps).price * Head(ps).qty + SumNotional(Tail(ps))

RECURSIVE SumReverse(_, _)
SumReverse(layers, n) == IF n = 0 THEN 0 ELSE layers[n][2] + SumReverse(layers, n - 1)

\* add_position with the multiplier read one layer too low
\* (self.layers[layer_idx - 1]; index -1 is the last layer)
AddPositionQtyPrevLayer(k, ps, bq) ==
    LET layer_idx == Len(ps) IN
    IF layer_idx >= Len(Layers(k)) THEN None
    ELSE Some(bq * Layers(k)[IF layer_idx = 0 THEN Len(Layers(k)) ELSE layer_idx][1])

\* add_position: the returned qty (None when the table is exhausted)
AddPositionQty(k, ps, bq) ==
    LET layer_idx == Len(ps) IN
    IF layer_idx >= Len(Layers(k)) THEN None
    ELSE Some(bq * Layers(k)[layer_idx + 1][1])

\* add_position: the ladder after the call
AddPositionLadder(k, ps, price, bq) ==
    LET q == AddPositionQty(k, ps, bq) IN
    IF q = None THEN ps ELSE Append(ps, [price |-> price, qty |-> q[1]])

\* the reverse_pct (bp) that should_add_position compares with, layer_idx < len(layers)
ReversePct(k, layer_idx) ==
    IF k = "online" THEN SumReverse(Layers(k), layer_idx + 1)
    ELSE Layers(k)[layer_idx + 1][2]

\* should_add_position
ShouldAddPosition(k, ps, entry, cur, dir) ==
    LET layer_idx == Len(ps) IN
    IF ps = << >> THEN TRUE
    ELSE IF layer_idx >= Len(Layers(k)) THEN FALSE
    ELSE IF dir = 1
         THEN (entry - cur) * 10000 >= ReversePct(k, layer_idx) * entry
         ELSE (cur - entry) * 10000 >= ReversePct(k, layer_idx) * entry

\* the reference price always taken over all entries
BasePriceAllEntries(ps) == << SumNotional(ps), SumQty(ps) >>

\* _avg_price / _first_last_avg as a pair <<notional, qty>>, chosen by layer_idx
BasePrice(ps) ==
    LET layer_idx == Len(ps) - 1
        first == ps[1]
        last == ps[Len(ps)]
    IN  IF layer_idx <= 6
        THEN << SumNotional(ps), SumQty(ps) >>
        ELSE << first.price * first.qty + last.price * last.qty, first.qty + last.qty >>

\* num / den in bp, floored: (num * 10000) \div den in two steps of 100, so
\* that no intermediate product leaves 32 bits; den > 0
FloorBp(num, den) ==
    LET x == (num * 100) \div den
        r == num * 100 - x * den
    IN  x * 100 + (r * 100) \div den

\* pnl_pct of check_take_profit in bp (floored); ps is not empty
PnlPct(ps, cur, dir) ==
    LET b == BasePrice(ps)
        num == IF dir = 1 THEN cur * b[2] - b[1]
                               ELSE b[1] - cur * b[2]
    IN  FloorBp(num, b[1])

Max(a, b) == IF b > a THEN b ELSE a

\* check_take_profit that exits on the call that first reaches the trigger
CheckTakeProfitExitOnTrigger(k, ps, peak, cur, dir) ==
    LET layer_idx == Len(ps) - 1 IN
    IF layer_idx < 0 THEN [ret |-> FALSE, peak |-> peak]
    ELSE
      LET tp_pct == TpRules(k)[layer_idx + 1][1]
          trail_pct == TpRules(k)[layer_idx + 1][2]
          pnl_pct == PnlPct(ps, cur, dir)
      IN  IF pnl_pct < tp_pct THEN [ret |-> FALSE, peak |-> peak]
          ELSE IF peak = None THEN [ret |-> TRUE, peak |-> Some(pnl_pct)]
          ELSE LET np == Max(peak[1], pnl_pct) IN
               [ret |-> pnl_pct <= np - trail_pct, peak |-> Some(np)]

\* check_take_profit that overwrites the peak (no max)
CheckTakeProfitOverwritePeak(k, ps, peak, cur, dir) ==
    LET layer_idx == Len(ps) - 1 IN
    IF layer_idx < 0 THEN [ret |-> FALSE, peak |-> peak]
    ELSE
      LET tp_pct == TpRules(k)[layer_idx + 1][1]
          trail_pct == TpRules(k)[layer_idx + 1][2]
          pnl_pct == PnlPct(ps, cur, dir)
      IN  IF pnl_pct < tp_pct THEN [ret |-> FALSE, peak |-> peak]
          ELSE IF peak = None THEN [ret |-> FALSE, peak |-> Some(pnl_pct)]
          ELSE [ret |-> pnl_pct <= pnl_pct - trail_pct, peak |-> Some(pnl_pct)]

\* check_take_profit without the `if pnl_pct < tp_pct: return False` gate
\* once the peak is set
CheckTakeProfitNoTriggerGate(k, ps, peak, cur, dir) ==
    LET layer_idx == Len(ps) - 1 IN
    IF layer_idx < 0 THEN [ret |-> FALSE, peak |-> peak]
    ELSE
      LET tp_pct == TpRules(k)[layer_idx + 1][1]
          trail_pct == TpRules(k)[layer_idx + 1][2]
          pnl_pct == PnlPct(ps, cur, dir)
      IN  IF peak = None
          THEN IF pnl_pct < tp_pct THEN [ret |-> FALSE, peak |-> peak]
               ELSE [ret |-> FALSE, peak |-> Some(pnl_pct)]
          ELSE LET np == Max(peak[1], pnl_pct) IN
               [ret |-> pnl_pct <= np - trail_pct, peak |-> Some(np)]

\* check_take_profit: [ret, peak] from the ladder, the peak and the arguments
CheckTakeProfit(k, ps, peak, cur, dir) ==
    LET layer_idx == Len(ps) - 1 IN
    IF layer_idx < 0 THEN [ret |-> FALSE, peak |-> peak]
    ELSE
      LET tp_pct == TpRules(k)[layer_idx + 1][1]
          trail_pct == TpRules(k)[layer_idx + 1][2]
          pnl_pct == PnlPct(ps, cur, dir)
      IN  IF pnl_pct < tp_pct THEN [ret |-> FALSE, peak |-> peak]
          ELSE IF peak = None THEN [ret |-> FALSE, peak |-> Some(pnl_pct)]
          ELSE LET np == Max(peak[1], pnl_pct) IN
               [ret |-> pnl_pct <= np - trail_pct, peak |-> Some(np)]

\* ------------------------------------------------------------------------
\* The ladder driven by arbitrary calls (SpecLadder)
\* ------------------------------------------------------------------------

\* add_position calls allowed beyond the length of the layer table
MaxExtraAdds == 2

\* the base_qty of a run is 1..MaxBaseQty lots
MaxBaseQty == 2

\* the first MaxVaried entries of a ladder are added at either add price,
\* deeper ones at the lower one
MaxVaried == 4

Kinds == {"online", "backtest"}

\* prices given to add_position and as entry
AddPrices(k) == IF k = "online" THEN {1000, 999} ELSE {1000, 990}

\* prices given to add_position when the ladder holds n entries
AddPricesAt(k, n) == IF n < MaxVaried THEN AddPrices(k) ELSE {p \in AddPrices(k) : p < 1000}

\* prices given as cur
TickPrices(k) ==
    IF k = "online" THEN {998, 999, 1000, 1001, 1002}
    ELSE {970, 980, 1000, 1010, 1016, 1020}

Directions == {1, -1}

ladderVars == << kind, positions, trailing_peak, base_qty >>

callVars == << call, nAdds, triggered >>

traderVars ==
    << pc, crash, state_machine, position, entry_price, oms_action, oms_qty, oms_price,
       last_price, attempt, order_state, polls, cancels, port_log, submit_ret,
       last_reply, wait_ret, intent_src, n_signals >>

btVars ==
    << bt_pc, n_bars, current_idx, n15, n60, close15, current_signal, current_position,
       bt_entry_price, leverage, realized_pnl, trade_records, equity_n, equity_last,
       last_close, n_opened, bt_event >>

feedVars == << f_thread, f_ws, f_stop, f_last_price >>

vars == << ladderVars, callVars, traderVars, btVars, feedVars >>

\* self.last_price = None, and every price that is None
NoPrice == 0

\* trading_main is not running: the state of its variables in the other specifications
TraderOff ==
    /\ pc = "off"
    /\ crash = ""
    /\ state_machine = "signal"
    /\ position = 0
    /\ entry_price = NoPrice
    /\ oms_action = "none"
    /\ oms_qty = 0
    /\ oms_price = NoPrice
    /\ last_price = NoPrice
    /\ attempt = 0
    /\ order_state = "none"
    /\ polls = 0
    /\ cancels = 0
    /\ port_log = << >>
    /\ submit_ret = "none"
    /\ last_reply = "none"
    /\ wait_ret = "none"
    /\ intent_src = "none"
    /\ n_signals = 0

\* run_dynamic is not running: the state of its variables in the other specifications
BacktestOff ==
    /\ bt_pc = "off"
    /\ n_bars = 0
    /\ current_idx = 0
    /\ n15 = 0
    /\ n60 = 0
    /\ close15 = NoPrice
    /\ current_signal = 0
    /\ current_position = 0
    /\ bt_entry_price = NoPrice
    /\ leverage = 1
    /\ realized_pnl = 0
    /\ trade_records = << >>
    /\ equity_n = 0
    /\ equity_last = [realized_pnl |-> 0, unrealized_pnl |-> 0, total_pnl |-> 0]
    /\ last_close = NoPrice
    /\ n_opened = 0
    /\ bt_event = "none"

\* the feeds tried: an OKXWsTicker and an OKXWsKline
Feeds == {"ticker", "kline"}

\* no feed object is followed: the state of the feed variables in the other
\* specifications
FeedOff ==
    /\ f_thread = [f \in Feeds |-> "none"]
    /\ f_ws = [f \in Feeds |-> "none"]
    /\ f_stop = [f \in Feeds |-> "idle"]
    /\ f_last_price = [f \in Feeds |-> NoPrice]

\* no RiskManager call is recorded
CallsOff ==
    /\ call = [name |-> "init", ret |-> FALSE, qty |-> None]
    /\ nAdds = 0
    /\ triggered = FALSE

LadderInit ==
    /\ kind \in Kinds
    /\ base_qty \in 1..MaxBaseQty
    /\ positions = << >>
    /\ trailing_peak = None
    /\ CallsOff
    /\ FeedOff
    /\ TraderOff
    /\ BacktestOff

LReset ==
    /\ positions' = << >>
    /\ trailing_peak' = None
    /\ call' = [name |-> "reset", ret |-> FALSE, qty |-> None]
    /\ nAdds' = 0
    /\ triggered' = FALSE
    /\ UNCHANGED << kind, base_qty, traderVars, btVars, feedVars >>

LAddPosition(price) ==
    /\ nAdds < Len(Layers(kind)) + MaxExtraAdds
    /\ positions' = AddPositionLadder(kind, positions, price, base_qty)
    /\ call' = [name |-> "add_position", ret |-> FALSE,
                qty |-> AddPositionQty(kind, positions, base_qty)]
    /\ nAdds' = nAdds + 1
    /\ UNCHANGED << kind, base_qty, trailing_peak, triggered, traderVars, btVars, feedVars >>

LShouldAddPosition(entry, cur, dir) ==
    /\ call' = [name |-> "should_add_position",
                ret |-> ShouldAddPosition(kind, positions, entry, cur, dir),
                qty |-> None]
    /\ UNCHANGED << kind, base_qty, positions, trailing_peak, nAdds, triggered, traderVars, btVars, feedVars >>

\* pnl_pct >= tp_pct for the rule of the last layer (FALSE on an empty ladder)
ReachesTrigger(k, ps, cur, dir) ==
    /\ ps # << >>
    /\ PnlPct(ps, cur, dir) >= TpRules(k)[Len(ps)][1]

LCheckTakeProfit(cur, dir) ==
    LET r == CheckTakeProfit(kind, positions, trailing_peak, cur, dir) IN
    /\ trailing_peak' = r.peak
    /\ call' = [name |-> "check_take_profit", ret |-> r.ret, qty |-> None]
    /\ triggered' = (triggered \/ (ReachesTrigger(kind, positions, cur, dir) /\ ~r.ret))
    /\ UNCHANGED << kind, base_qty, positions, nAdds, traderVars, btVars, feedVars >>

LadderNext ==
    \/ LReset
    \/ \E p \in AddPricesAt(kind, Len(positions)) : LAddPosition(p)
    \/ \E e \in AddPrices(kind), c \in TickPrices(kind), d \in Directions :
          LShouldAddPosition(e, c, d)
    \/ \E c \in TickPrices(kind), d \in Directions : LCheckTakeProfit(c, d)

SpecLadder == LadderInit /\ [][LadderNext]_vars

\* ------------------------------------------------------------------------
\* OrderManager and wait_order_filled (engine/online/oms.py)
\* ------------------------------------------------------------------------

\* OrderManager.__init__: max_retries=3
max_retries == 3

\* the retry loop running one iteration too many
RetriesExhaustedLate(a) == a >= max_retries

\* the retry loop `for attempt in range(self.max_retries)` has no further
\* iteration after the one with index a
RetriesExhausted(a) == a + 1 >= max_retries

\* the statuses wait_order_filled takes for a fill, and for a terminal non-fill
FilledStatuses == {"filled", "success", "2"}

NonFillStatuses == {"canceled", "cancelled", "failed", "rejected"}

\* wait_order_filled without 'rejected' among the terminal statuses
WaitOutcomeNoRejected(status) ==
    IF status \in FilledStatuses THEN "true"
    ELSE IF status \in NonFillStatuses \ {"rejected"} THEN "false"
    ELSE "sleep"

\* wait_order_filled taking a cancelled order for a filled one
WaitOutcomeCancelFills(status) ==
    IF status \in FilledStatuses \cup {"canceled"} THEN "true"
    ELSE IF status \in NonFillStatuses THEN "false"
    ELSE "sleep"

\* wait_order_filled giving up on a status query that raised or gave no state
WaitOutcomeErrorEndsWait(status) ==
    IF status \in FilledStatuses THEN "true"
    ELSE IF status \in NonFillStatuses \cup {"exception", "malformed"} THEN "false"
    ELSE "sleep"

\* what one iteration of wait_order_filled does with the status it read:
\* "true"/"false" return that value, "sleep" goes on polling
WaitOutcome(status) ==
    IF status \in FilledStatuses THEN "true"
    ELSE IF status \in NonFillStatuses THEN "false"
    ELSE "sleep"

\* the cancel request of wait_order_filled outside any try/except
CancelFailureRaised(cancel_ok) == ~cancel_ok

\* whether a failure of cancel_order leaves wait_order_filled as an
\* exception: the call is inside try/except Exception, so it never does
CancelFailureEscapes(cancel_ok) == FALSE

\* ------------------------------------------------------------------------
\* trading_main (engine/trader.py)
\* ------------------------------------------------------------------------

\* directional signals acted on in a run
MaxSignals == 2

\* iterations of wait_order_filled's loop before the timeout has elapsed
MaxPolls == 2

\* the prices the ticker feed delivers
FeedPrices == {999, 1000, 1001, 1002}

\* a tick 1% below 1000
DeepPrice == 990

\* the ticks tried on ladder ps: the deep tick only on a full ladder (on any
\* other it starts an add, as 999 does)
FeedPricesAt(ps) ==
    IF Len(ps) = Len(OnlineLayers) THEN FeedPrices \cup {DeepPrice} ELSE FeedPrices

\* total_qty = sum(p["qty"] for p in risk_manager.positions)
TotalQty(ps) == SumQty(ps)

\* an operand of check_take_profit's arithmetic is None
TakeProfitTypeError(ps, cur) ==
    \/ cur = NoPrice
    \/ IF Len(ps) - 1 <= 6 THEN \E i \in 1..Len(ps) : ps[i].price = NoPrice
       ELSE ps[1].price = NoPrice \/ ps[Len(ps)].price = NoPrice

\* an operand of should_add_position's arithmetic is None (the arithmetic is
\* reached only on a ladder neither empty nor full)
ShouldAddTypeError(k, ps, entry, cur) ==
    /\ ps # << >>
    /\ Len(ps) < Len(Layers(k))
    /\ (entry = NoPrice \/ cur = NoPrice)

TraderInit ==
    /\ kind = "online"
    /\ base_qty \in 1..MaxBaseQty
    /\ positions = << >>
    /\ trailing_peak = None
    /\ CallsOff
    /\ FeedOff
    /\ BacktestOff
    /\ pc = "loop"
    /\ crash = ""
    /\ state_machine = "signal"
    /\ position = 0
    /\ entry_price = NoPrice
    /\ oms_action = "none"
    /\ oms_qty = 0
    /\ oms_price = NoPrice
    /\ last_price = NoPrice
    /\ attempt = 0
    /\ order_state = "none"
    /\ polls = 0
    /\ cancels = 0
    /\ port_log = << >>
    /\ submit_ret = "none"
    /\ last_reply = "none"
    /\ wait_ret = "none"
    /\ intent_src = "none"
    /\ n_signals = 0

omsVars == << attempt, order_state, polls, cancels, port_log, submit_ret, last_reply, wait_ret >>

intentVars == << oms_action, oms_qty, oms_price, intent_src >>

\* OKXWsTicker._on_message on the feed thread.  Only the last tick before
\* get_last_price() is read, so ticks are taken where the loop is about to read.
FeedTick(p) ==
    /\ pc = "loop"
    /\ state_machine \in {"signal", "rms"}
    /\ last_price # p
    /\ last_price' = p
    /\ UNCHANGED << btVars, feedVars, ladderVars, callVars, pc, crash, state_machine, position, entry_price,
                    intentVars, omsVars, n_signals >>

\* SIGNAL: no data yet, or the strategy's signal is neither 1 nor -1
SignalIdle ==
    /\ pc = "loop"
    /\ state_machine = "signal"
    /\ UNCHANGED vars

\* SIGNAL: the strategy's signal is 1 or -1
SignalOrder(signal) ==
    /\ pc = "loop"
    /\ state_machine = "signal"
    /\ n_signals < MaxSignals
    /\ n_signals' = n_signals + 1
    /\ state_machine' = "oms"
    /\ oms_action' = IF signal = 1 THEN "long" ELSE "short"
    /\ oms_qty' = base_qty
    /\ oms_price' = last_price
    /\ intent_src' = "signal"
    /\ UNCHANGED << btVars, feedVars, ladderVars, callVars, pc, crash, position, entry_price, last_price, omsVars >>

\* OMS: the call of open_long / open_short / close_position begins
OmsSubmit ==
    /\ pc = "loop"
    /\ state_machine = "oms"
    /\ pc' = "place"
    /\ attempt' = 0
    /\ port_log' = << >>
    /\ submit_ret' = "none"
    /\ order_state' = "none"
    /\ polls' = 0
    /\ cancels' = 0
    /\ last_reply' = "none"
    /\ wait_ret' = "none"
    /\ UNCHANGED << btVars, feedVars, ladderVars, callVars, crash, state_machine, position, entry_price,
                    intentVars, last_price, n_signals >>

\* one iteration of the retry loop: place_futures_market_order raises
PlaceRaises ==
    /\ pc = "place"
    /\ port_log' = Append(port_log, "raise")
    /\ IF RetriesExhausted(attempt)
       THEN /\ submit_ret' = "raised"
            /\ pc' = "crashed"
            /\ crash' = "SubmissionFailed"
            /\ UNCHANGED attempt
       ELSE /\ attempt' = attempt + 1
            /\ UNCHANGED << submit_ret, pc, crash >>
    /\ UNCHANGED << btVars, feedVars, ladderVars, callVars, state_machine, position, entry_price, intentVars,
                    last_price, order_state, polls, cancels, last_reply, wait_ret, n_signals >>

\* one iteration of the retry loop: place_futures_market_order returns resp;
\* has_id: resp['data'][0]['ordId'] is there and not empty
PlaceReturns(has_id) ==
    /\ pc = "place"
    /\ port_log' = Append(port_log, "ok")
    /\ submit_ret' = "returned"
    /\ IF has_id
       THEN /\ pc' = "poll"
            /\ order_state' = "live"
            /\ UNCHANGED state_machine
       ELSE /\ pc' = "loop"
            /\ state_machine' = "signal"
            /\ UNCHANGED order_state
    /\ UNCHANGED << btVars, feedVars, ladderVars, callVars, crash, position, entry_price, intentVars, last_price,
                    attempt, polls, cancels, last_reply, wait_ret, n_signals >>

\* the fill handling without risk_manager.reset() before the first entry
FilledNoReset ==
    IF oms_action \in {"long", "short"}
    THEN /\ IF position = 0
            THEN /\ position' = (IF oms_action = "long" THEN 1 ELSE -1)
                 /\ entry_price' = oms_price
                 /\ positions' = AddPositionLadder(kind, positions, oms_price, oms_qty)
                 /\ UNCHANGED trailing_peak
            ELSE /\ positions' = AddPositionLadder(kind, positions, oms_price, oms_qty)
                 /\ UNCHANGED << position, entry_price, trailing_peak >>
         /\ state_machine' = "rms"
    ELSE /\ position' = 0
         /\ entry_price' = NoPrice
         /\ state_machine' = "signal"
         /\ UNCHANGED << positions, trailing_peak >>

\* lines 106-119 of trading_main: the order was filled
Filled ==
    IF oms_action \in {"long", "short"}
    THEN /\ IF position = 0
            THEN /\ position' = (IF oms_action = "long" THEN 1 ELSE -1)
                 /\ entry_price' = oms_price
                 /\ positions' = AddPositionLadder(kind, << >>, oms_price, oms_qty)
                 /\ trailing_peak' = None
            ELSE /\ positions' = AddPositionLadder(kind, positions, oms_price, oms_qty)
                 /\ UNCHANGED << position, entry_price, trailing_peak >>
         /\ state_machine' = "rms"
    ELSE /\ position' = 0
         /\ entry_price' = NoPrice
         /\ state_machine' = "signal"
         /\ UNCHANGED << positions, trailing_peak >>

\* one iteration of wait_order_filled's loop; reply is the status get_order
\* gave, "exception" when it raised, "malformed" when the answer has no state
Poll(reply) ==
    /\ pc = "poll"
    /\ polls < MaxPolls
    /\ last_reply' = reply
    /\ LET o == WaitOutcome(reply) IN
       \/ /\ o = "true"
          /\ wait_ret' = "true"
          /\ pc' = "loop"
          /\ Filled
          /\ UNCHANGED polls
       \/ /\ o = "false"
          /\ wait_ret' = "false"
          /\ pc' = "loop"
          /\ state_machine' = "signal"
          /\ UNCHANGED << polls, positions, trailing_peak, position, entry_price >>
       \/ /\ o = "sleep"
          /\ polls' = polls + 1
          /\ UNCHANGED << wait_ret, pc, state_machine, positions, trailing_peak, position,
                          entry_price >>
    /\ UNCHANGED << btVars, feedVars, kind, base_qty, callVars, crash, intentVars, last_price, attempt,
                    order_state, cancels, port_log, submit_ret, n_signals >>

\* the timeout of wait_order_filled has elapsed (timeout=30 > 0: not before the
\* first iteration): cancel_order is called, cancel_ok tells whether it
\* succeeded, and False is returned
PollTimeout(cancel_ok) ==
    /\ pc = "poll"
    /\ polls >= 1
    /\ cancels' = cancels + 1
    /\ order_state' = IF cancel_ok /\ order_state \in {"live", "partially_filled"}
                      THEN "canceled" ELSE order_state
    /\ IF CancelFailureEscapes(cancel_ok)
       THEN /\ pc' = "crashed"
            /\ crash' = "CancelFailed"
            /\ UNCHANGED << wait_ret, state_machine >>
       ELSE /\ wait_ret' = "false"
            /\ pc' = "loop"
            /\ state_machine' = "signal"
            /\ UNCHANGED crash
    /\ UNCHANGED << btVars, feedVars, ladderVars, callVars, position, entry_price, intentVars, last_price,
                    attempt, polls, port_log, submit_ret, last_reply, n_signals >>

\* the exchange moves the placed order to another state
ExchangeUpdate(status) ==
    /\ pc \in {"loop", "poll"}
    /\ order_state \in {"live", "partially_filled"}
    /\ status \in {"partially_filled", "filled", "canceled"}
    /\ status # order_state
    /\ order_state' = status
    /\ UNCHANGED << btVars, feedVars, ladderVars, callVars, pc, crash, state_machine, position, entry_price,
                    intentVars, last_price, attempt, polls, cancels, port_log, submit_ret,
                    last_reply, wait_ret, n_signals >>

\* RMS: one iteration
Rms ==
    /\ pc = "loop"
    /\ state_machine = "rms"
    /\ LET current_price == last_price IN
       IF ShouldAddTypeError(kind, positions, entry_price, current_price)
       THEN /\ pc' = "crashed"
            /\ crash' = "TypeError"
            /\ UNCHANGED << state_machine, intentVars, trailing_peak >>
       ELSE IF ShouldAddPosition(kind, positions, entry_price, current_price, position)
       THEN \* risk_manager.get_next_qty: RiskManager has no such method
            /\ pc' = "crashed"
            /\ crash' = "AttributeError"
            /\ UNCHANGED << state_machine, intentVars, trailing_peak >>
       ELSE IF TakeProfitTypeError(positions, current_price)
       THEN /\ pc' = "crashed"
            /\ crash' = "TypeError"
            /\ UNCHANGED << state_machine, intentVars, trailing_peak >>
       ELSE LET r == CheckTakeProfit(kind, positions, trailing_peak, current_price, position) IN
            /\ trailing_peak' = r.peak
            /\ IF r.ret
               THEN /\ oms_action' = (IF position = 1 THEN "close_long" ELSE "close_short")
                    /\ oms_qty' = TotalQty(positions)
                    /\ oms_price' = current_price
                    /\ intent_src' = "rms"
                    /\ state_machine' = "oms"
               ELSE UNCHANGED << state_machine, intentVars >>
            /\ UNCHANGED << pc, crash >>
    /\ UNCHANGED << btVars, feedVars, kind, base_qty, positions, callVars, position, entry_price, last_price,
                    omsVars, n_signals >>

\* the statuses get_order may report for an order in state st
Replies(st) ==
    IF st = "filled" THEN FilledStatuses
    ELSE IF st = "canceled" THEN NonFillStatuses
    ELSE {st}

Next ==
    \/ \E p \in FeedPricesAt(positions) : FeedTick(p)
    \/ SignalIdle
    \/ \E signal \in {1, -1} : SignalOrder(signal)
    \/ OmsSubmit
    \/ PlaceRaises
    \/ \E has_id \in BOOLEAN : PlaceReturns(has_id)
    \/ \E reply \in Replies(order_state) \cup {"exception", "malformed"} : Poll(reply)
    \/ \E cancel_ok \in BOOLEAN : PollTimeout(cancel_ok)
    \/ \E status \in {"partially_filled", "filled", "canceled"} : ExchangeUpdate(status)
    \/ Rms

Spec == TraderInit /\ [][Next]_vars

\* a step of a wait_order_filled call under way: an iteration of its loop, or
\* the end of the loop when the timeout has elapsed
WaitStep ==
    \/ \E reply \in Replies(order_state) \cup {"exception", "malformed"} : Poll(reply)
    \/ \E cancel_ok \in BOOLEAN : PollTimeout(cancel_ok)

\* the SIGNAL and OMS branches of trading_main: ticks, signals, the submission
\* of the queued order and the wait for its fill; a run is followed up to the
\* outcome of each order, and RMS, which wait_order_filled never enters, is
\* left out
OrderNext ==
    \/ \E p \in FeedPricesAt(positions) : FeedTick(p)
    \/ \E signal \in {1, -1} : SignalOrder(signal)
    \/ OmsSubmit
    \/ PlaceRaises
    \/ \E has_id \in BOOLEAN : PlaceReturns(has_id)
    \/ \E status \in {"partially_filled", "filled", "canceled"} : ExchangeUpdate(status)
    \/ WaitStep

\* get_order and cancel_order return or raise, and time passes: the wait goes on
SpecWaitFair == TraderInit /\ [][OrderNext]_vars /\ WF_vars(WaitStep)

\* a step of the loop of trading_main that does not depend on what the
\* strategy says: the OMS and RMS branches and the calls they make
ControllerStep ==
    \/ OmsSubmit
    \/ PlaceRaises
    \/ \E has_id \in BOOLEAN : PlaceReturns(has_id)
    \/ WaitStep
    \/ Rms

\* the loop of trading_main keeps running and the calls it makes come back
SpecLoopFair == TraderInit /\ [][Next]_vars /\ WF_vars(ControllerStep)

\* ------------------------------------------------------------------------
\* trading_main resumed in a state it reaches after n filled open orders
\* ------------------------------------------------------------------------
\* A ladder grows in the live loop only by orders queued in SIGNAL while a
\* position is open (after a close order of RMS that was not filled).  The
\* state taken up here is the one right after the n-th such order was filled
\* at 1000, each close before it queued on ticks 1002/1003 (peak) and
\* 1001/1002 (exit): n entries at 1000, the peak 0.002 while n <= 5 and 0.003
\* from then on.

\* the numbers of entries resumed with: 2, and a full ladder
ResumeDepths == {2, Len(OnlineLayers)}

\* n entries at one price, each sized by its layer
LadderAt(n, price, bq) ==
    [i \in 1..n |-> [price |-> price, qty |-> bq * OnlineLayers[i][1]]]

\* the peak (bp) recorded by then; of the signals acted on before, one is
\* counted against MaxSignals
ResumePeak(n) == IF n <= 5 THEN Some(20) ELSE Some(30)

ResumedInit ==
    /\ kind = "online"
    /\ base_qty \in 1..MaxBaseQty
    /\ \E n \in ResumeDepths :
          /\ positions = LadderAt(n, 1000, base_qty)
          /\ trailing_peak = ResumePeak(n)
    /\ CallsOff
    /\ FeedOff
    /\ BacktestOff
    /\ pc = "loop"
    /\ crash = ""
    /\ state_machine = "rms"
    /\ position = 1
    /\ entry_price = 1000
    /\ oms_action = "long"
    /\ oms_qty = base_qty
    /\ oms_price = 1000
    /\ last_price = 1000
    /\ attempt = 0
    /\ order_state = "filled"
    /\ polls = 0
    /\ cancels = 0
    /\ port_log = << "ok" >>
    /\ submit_ret = "returned"
    /\ last_reply = "filled"
    /\ wait_ret = "true"
    /\ intent_src = "signal"
    /\ n_signals = 1

SpecResumed == ResumedInit /\ [][Next]_vars

\* the loop of trading_main keeps running: an iteration of RMS that has
\* something to do is taken
SpecResumedFair == ResumedInit /\ [][Next]_vars /\ WF_vars(Rms)

\* ------------------------------------------------------------------------
\* Backtester.run_dynamic (engine/backtest/backtest.py)
\* ------------------------------------------------------------------------

\* `if len(df_1m) < 6000`, `current_idx = 6000`
Warmup == 6000

\* 1-minute bars in a 15-minute bar and in a 1-hour bar
Bars15 == 15

Bars60 == 60

\* bars of the longest series after the warm-up
MaxBars == 16

\* the close varies on the first MaxVariedBars bars after the warm-up and on
\* the bars that end or start a 15-minute bar; on the others it repeats
MaxVariedBars == 3

\* the close prices of the bars: around 1000, and half and one and a half
\* of it (where a leverage of 2 liquidates a position entered at 1000)
BtPrices == {490, 500, 980, 1000, 1010, 1020, 1500, 1510}

BarPrices(idx) ==
    LET off == idx - Warmup
    IN  IF off < MaxVariedBars \/ (off + 1) % Bars15 <= 1 THEN BtPrices ELSE {last_close}

\* the lengths of the series tried
SeriesLengths == {Warmup - 1, Warmup + 1, Warmup + MaxBars}

\* the leverage arguments tried (1 / leverage is exact in binary floating
\* point for these, so the thresholds are the exact products)
Leverages == {0, 1, 2}

Signals == {-1, 0, 1}

\* the liquidation test with the boundary price left out
CheckLiquidationStrict(ps, exit_price, pos, L) ==
    LET T == SumNotional(ps)
        Q == SumQty(ps)
    IN  IF pos = 1 THEN exit_price * Q * L < T * (L - 1)
                   ELSE exit_price * Q * L > T * (L + 1)

\* the liquidation test of run_dynamic for leverage L > 0, on the average
\* entry T/Q of all entries:
\*   long:  exit_price <= avg_entry * (1 - 1 / leverage)
\*   short: exit_price >= avg_entry * (1 + 1 / leverage)
CheckLiquidation(ps, exit_price, pos, L) ==
    LET T == SumNotional(ps)
        Q == SumQty(ps)
    IN  IF pos = 1 THEN exit_price * Q * L <= T * (L - 1)
                   ELSE exit_price * Q * L >= T * (L + 1)

\* (exit_price - avg_entry) / avg_entry * position * total_qty * leverage,
\* in 1/10000 lot, avg_entry the average of all entries
TradePnl(ps, exit_price, pos, L) ==
    LET T == SumNotional(ps)
        Q == SumQty(ps)
    IN  FloorBp(exit_price * Q - T, T) * pos * Q * L

\* the liquidation pnl without the leverage factor
LiquidationPnlNoLeverage(ps, L) == (0 - SumQty(ps)) * 10000

\* -total_qty * leverage, in 1/10000 lot
LiquidationPnl(ps, L) == (0 - SumQty(ps)) * L * 10000

TradeRecord(ps, exit_price, pnl, pos, idx) ==
    [average_entry |-> << SumNotional(ps), SumQty(ps) >>,
     exit_price |-> exit_price,
     total_qty |-> SumQty(ps),
     pnl |-> pnl,
     position |-> pos,
     exit_idx |-> idx]

EquityPoint(realized, unrealized) ==
    [realized_pnl |-> realized, unrealized_pnl |-> unrealized,
     total_pnl |-> realized + unrealized]

BacktestInit ==
    /\ kind = "backtest"
    /\ base_qty \in 1..MaxBaseQty
    /\ positions = << >>
    /\ trailing_peak = None
    /\ CallsOff
    /\ FeedOff
    /\ TraderOff
    /\ bt_pc = "start"
    /\ n_bars \in SeriesLengths
    /\ leverage \in Leverages
    /\ current_idx = 0
    /\ n15 = 0
    /\ n60 = 0
    /\ close15 = NoPrice
    /\ current_signal = 0
    /\ current_position = 0
    /\ bt_entry_price = NoPrice
    /\ realized_pnl = 0
    /\ trade_records = << >>
    /\ equity_n = 0
    /\ equity_last = EquityPoint(0, 0)
    /\ last_close = NoPrice
    /\ n_opened = 0
    /\ bt_event = "none"

\* the start of the run without the length test
BtStartNoLengthTest(c15, sig) ==
    /\ bt_pc = "start"
    /\ bt_pc' = "run"
    /\ current_idx' = Warmup
    /\ close15' = c15
    /\ last_close' = c15
    /\ current_signal' = sig
    /\ equity_n' = Warmup
    /\ UNCHANGED << ladderVars, callVars, traderVars, feedVars, n_bars, n15, n60, current_position,
                    bt_entry_price, leverage, realized_pnl, trade_records, equity_last,
                    n_opened, bt_event >>

\* lines 20-63: the length test, the first signal from the warm-up bars, the
\* equity points of the warm-up bars
BtStart(c15, sig) ==
    /\ bt_pc = "start"
    /\ IF n_bars < Warmup
       THEN /\ bt_pc' = "error"
            /\ UNCHANGED << current_idx, close15, current_signal, equity_n, last_close >>
       ELSE /\ bt_pc' = "run"
            /\ current_idx' = Warmup
            /\ close15' = c15
            /\ last_close' = c15
            /\ current_signal' = sig
            /\ equity_n' = Warmup
    /\ UNCHANGED << ladderVars, callVars, traderVars, feedVars, n_bars, n15, n60, current_position,
                    bt_entry_price, leverage, realized_pnl, trade_records, equity_last,
                    n_opened, bt_event >>

\* one iteration of `while current_idx < len(df_1m)`; c is the bar's close,
\* sig what generate_signals gives if it is called on this bar
BtBar(c, sig) ==
    /\ bt_pc = "run"
    /\ current_idx < n_bars
    /\ LET done15 == (n15 + 1 = Bars15)
           done60 == (n60 + 1 = Bars60)
           c15 == IF done15 THEN c ELSE close15
           sig1 == IF done15 \/ done60 THEN sig ELSE current_signal
           Q == SumQty(positions)
           Record(pnl) == TradeRecord(positions, c, pnl, current_position, current_idx)
           \* the position is closed with the trade's pnl
           Close(ev, pnl) ==
               /\ bt_event' = ev
               /\ trade_records' = Append(trade_records, Record(pnl))
               /\ realized_pnl' = realized_pnl + pnl
               /\ current_position' = 0
               /\ positions' = << >>
               /\ trailing_peak' = None
               /\ bt_entry_price' = NoPrice
               /\ equity_last' = EquityPoint(realized_pnl + pnl, 0)
           \* the position stays open with ladder ps and peak pk
           Keep(ev, ps, pk) ==
               /\ bt_event' = ev
               /\ positions' = ps
               /\ trailing_peak' = pk
               /\ equity_last' = EquityPoint(realized_pnl,
                                             TradePnl(ps, c, current_position, leverage))
               /\ UNCHANGED << trade_records, realized_pnl, current_position, bt_entry_price >>
       IN
       /\ sig \in (IF done15 \/ done60 THEN Signals ELSE {current_signal})
       /\ n15' = (IF done15 THEN 0 ELSE n15 + 1)
       /\ n60' = (IF done60 THEN 0 ELSE n60 + 1)
       /\ close15' = c15
       /\ current_signal' = sig1
       /\ last_close' = c
       /\ n_opened' = (IF current_position = 0 /\ sig1 # 0 THEN n_opened + 1 ELSE n_opened)
       /\ IF current_position = 0 /\ sig1 # 0
          THEN \* lines 101-108
               /\ bt_event' = "open"
               /\ current_position' = sig1
               /\ bt_entry_price' = c15
               /\ positions' = AddPositionLadder(kind, << >>, c15, base_qty)
               /\ trailing_peak' = None
               /\ equity_last' =
                     EquityPoint(realized_pnl,
                                 TradePnl(AddPositionLadder(kind, << >>, c15, base_qty),
                                          c, sig1, leverage))
               /\ UNCHANGED << trade_records, realized_pnl >>
               /\ bt_pc' = "run" /\ current_idx' = current_idx + 1 /\ equity_n' = equity_n + 1
          ELSE IF current_position # 0
          THEN IF leverage = 0
               THEN \* 1 / leverage: ZeroDivisionError
                    /\ bt_pc' = "error"
                    /\ bt_event' = "none"
                    /\ UNCHANGED << positions, trailing_peak, trade_records, realized_pnl,
                                    current_position, bt_entry_price, equity_last,
                                    current_idx, equity_n >>
               ELSE /\ IF CheckLiquidation(positions, c, current_position, leverage)
                       THEN Close("liquidation", LiquidationPnl(positions, leverage))
                       ELSE IF ShouldAddPosition(kind, positions, bt_entry_price, c,
                                                 current_position)
                       THEN IF AddPositionQty(kind, positions, base_qty) = None
                            THEN Close("forced_exit",
                                       TradePnl(positions, c, current_position, leverage))
                            ELSE Keep("add", AddPositionLadder(kind, positions, c, base_qty),
                                      trailing_peak)
                       ELSE LET r == CheckTakeProfit(kind, positions, trailing_peak, c,
                                                     current_position)
                            IN  IF r.ret
                                THEN Close("take_profit",
                                           TradePnl(positions, c, current_position, leverage))
                                ELSE Keep("hold", positions, r.peak)
                    /\ bt_pc' = "run" /\ current_idx' = current_idx + 1
                    /\ equity_n' = equity_n + 1
          ELSE /\ bt_event' = "flat"
               /\ equity_last' = EquityPoint(realized_pnl, 0)
               /\ UNCHANGED << positions, trailing_peak, trade_records, realized_pnl,
                               current_position, bt_entry_price >>
               /\ bt_pc' = "run" /\ current_idx' = current_idx + 1 /\ equity_n' = equity_n + 1
    /\ UNCHANGED << kind, base_qty, callVars, traderVars, feedVars, n_bars, leverage >>

\* the end of the run with the final trade recorded at the entry price
\* instead of the last close
BtEndAtEntryPrice ==
    /\ bt_pc = "run"
    /\ current_idx >= n_bars
    /\ bt_pc' = "done"
    /\ IF current_position # 0
       THEN LET pnl == TradePnl(positions, bt_entry_price, current_position, leverage) IN
            /\ bt_event' = "final_close"
            /\ trade_records' =
                  Append(trade_records,
                         TradeRecord(positions, bt_entry_price, pnl, current_position,
                                     n_bars - 1))
            /\ realized_pnl' = realized_pnl + pnl
       ELSE /\ bt_event' = "end"
            /\ UNCHANGED << trade_records, realized_pnl >>
    /\ UNCHANGED << ladderVars, callVars, traderVars, feedVars, n_bars, current_idx, n15, n60, close15,
                    current_signal, current_position, bt_entry_price, leverage, equity_n,
                    equity_last, last_close, n_opened >>

\* the end of the run without the final trade
BtEndSkipsClose ==
    /\ bt_pc = "run"
    /\ current_idx >= n_bars
    /\ bt_pc' = "done"
    /\ bt_event' = (IF current_position # 0 THEN "final_close" ELSE "end")
    /\ UNCHANGED << trade_records, realized_pnl >>
    /\ UNCHANGED << ladderVars, callVars, traderVars, feedVars, n_bars, current_idx, n15, n60, close15,
                    current_signal, current_position, bt_entry_price, leverage, equity_n,
                    equity_last, last_close, n_opened >>

\* lines 202-222: after the last bar
BtEnd ==
    /\ bt_pc = "run"
    /\ current_idx >= n_bars
    /\ bt_pc' = "done"
    /\ IF current_position # 0
       THEN LET pnl == TradePnl(positions, last_close, current_position, leverage) IN
            /\ bt_event' = "final_close"
            /\ trade_records' =
                  Append(trade_records,
                         TradeRecord(positions, last_close, pnl, current_position, n_bars - 1))
            /\ realized_pnl' = realized_pnl + pnl
       ELSE /\ bt_event' = "end"
            /\ UNCHANGED << trade_records, realized_pnl >>
    /\ UNCHANGED << ladderVars, callVars, traderVars, feedVars, n_bars, current_idx, n15, n60, close15,
                    current_signal, current_position, bt_entry_price, leverage, equity_n,
                    equity_last, last_close, n_opened >>

BacktestNext ==
    \/ \E sig \in Signals : BtStart(1000, sig)
    \/ \E c \in BarPrices(current_idx), sig \in Signals : BtBar(c, sig)
    \/ BtEnd

SpecBacktest == BacktestInit /\ [][BacktestNext]_vars

\* ------------------------------------------------------------------------
\* The live loop and the backtest side by side
\* ------------------------------------------------------------------------

\* the live loop from its start and from a full ladder, the backtest from
\* its start
BothInit ==
    \/ TraderInit
    \/ (ResumedInit /\ Len(positions) = Len(OnlineLayers))
    \/ BacktestInit

BothNext == Next \/ BacktestNext

SpecBoth == BothInit /\ [][BothNext]_vars

\* the two callers of check_take_profit: the live loop with a ladder of 2 and
\* of 13 entries, and the backtest from its start
RiskInit == ResumedInit \/ BacktestInit

SpecRisk == RiskInit /\ [][BothNext]_vars

\* ------------------------------------------------------------------------
\* OKXWsTicker / OKXWsKline: start(), the feed thread, stop()
\* (connector/okx_ws_ticker.py; the two classes have the same start and stop)
\* ------------------------------------------------------------------------

\* the prices a feed message carries
MessagePrices == {1000, 1001}

FeedInit ==
    /\ kind = "online"
    /\ base_qty = 1
    /\ positions = << >>
    /\ trailing_peak = None
    /\ CallsOff
    /\ TraderOff
    /\ BacktestOff
    /\ f_thread = [f \in Feeds |-> "none"]
    /\ f_ws = [f \in Feeds |-> "none"]
    /\ f_stop = [f \in Feeds |-> "idle"]
    /\ f_last_price = [f \in Feeds |-> NoPrice]

notFeedVars == << ladderVars, callVars, traderVars, btVars >>

\* start(): self._thread = threading.Thread(target=run, daemon=True); start()
FStart(f) ==
    /\ f_thread[f] = "none"
    /\ f_thread' = [f_thread EXCEPT ![f] = "line45"]
    /\ UNCHANGED << notFeedVars, f_ws, f_stop, f_last_price >>

\* run(), line 45: self._ws = websocket.WebSocketApp(...)
FCreateApp(f) ==
    /\ f_thread[f] = "line45"
    /\ f_thread' = [f_thread EXCEPT ![f] = "line52"]
    /\ f_ws' = [f_ws EXCEPT ![f] = "app"]
    /\ UNCHANGED << notFeedVars, f_stop, f_last_price >>

\* run(), line 52: self._ws.run_forever() is entered; it returns at once if
\* a close() made before is honoured
FRunForever(f) ==
    /\ f_thread[f] = "line52"
    /\ f_thread' = [f_thread EXCEPT ![f] = IF f_ws[f] = "closing" THEN "ended"
                                           ELSE "run_forever"]
    /\ UNCHANGED << notFeedVars, f_ws, f_stop, f_last_price >>

\* _on_message on the feed thread: self.last_price = float(...)
FMessage(f, p) ==
    /\ f_thread[f] = "run_forever"
    /\ f_ws[f] = "app"
    /\ f_last_price[f] # p
    /\ f_last_price' = [f_last_price EXCEPT ![f] = p]
    /\ UNCHANGED << notFeedVars, f_thread, f_ws, f_stop >>

\* run_forever() returns after close(), and run() with it
FClosedReturns(f) ==
    /\ f_thread[f] = "run_forever"
    /\ f_ws[f] = "closing"
    /\ f_thread' = [f_thread EXCEPT ![f] = "ended"]
    /\ UNCHANGED << notFeedVars, f_ws, f_stop, f_last_price >>

\* run_forever() returns by itself (the connection failed or was closed by
\* the server)
FDisconnect(f) ==
    /\ f_thread[f] = "run_forever"
    /\ f_ws[f] = "app"
    /\ f_thread' = [f_thread EXCEPT ![f] = "ended"]
    /\ UNCHANGED << notFeedVars, f_ws, f_stop, f_last_price >>

\* stop(), line 57: self._stop.set(); stop() is called on a started feed
StopSet(f) ==
    /\ f_stop[f] = "idle"
    /\ f_thread[f] # "none"
    /\ f_stop' = [f_stop EXCEPT ![f] = "line58"]
    /\ UNCHANGED << notFeedVars, f_thread, f_ws, f_last_price >>

\* stop(), lines 58-59: `if self._ws: self._ws.close()`.  A close() on an
\* app whose run_forever() has not begun may or may not be honoured by the
\* websocket library (honoured tells which); on a running app it is
StopClose(f, honoured) ==
    /\ f_stop[f] = "line58"
    /\ f_stop' = [f_stop EXCEPT ![f] = "line60"]
    /\ f_ws' = [f_ws EXCEPT ![f] =
                  IF f_ws[f] = "none" THEN "none"
                  ELSE IF f_thread[f] = "line52" /\ ~honoured THEN f_ws[f]
                  ELSE "closing"]
    /\ UNCHANGED << notFeedVars, f_thread, f_last_price >>

\* stop(), lines 60-61: `if self._thread: self._thread.join()` returns when
\* the thread has ended
StopJoin(f) ==
    /\ f_stop[f] = "line60"
    /\ f_thread[f] = "ended"
    /\ f_stop' = [f_stop EXCEPT ![f] = "returned"]
    /\ UNCHANGED << notFeedVars, f_thread, f_ws, f_last_price >>

\* the steps of the feed thread that do not wait for anything outside
FThreadStep(f) == FCreateApp(f) \/ FRunForever(f) \/ FClosedReturns(f)

\* the steps of a stop() call under way
FStopStep(f) == (\E h \in BOOLEAN : StopClose(f, h)) \/ StopJoin(f)

FeedNext ==
    \E f \in Feeds :
       \/ FStart(f)
       \/ FCreateApp(f)
       \/ FRunForever(f)
       \/ \E p \in MessagePrices : FMessage(f, p)
       \/ FClosedReturns(f)
       \/ FDisconnect(f)
       \/ StopSet(f)
       \/ \E h \in BOOLEAN : StopClose(f, h)
       \/ StopJoin(f)

\* threads are scheduled and a stop() call under way goes on
SpecFeedFair ==
    /\ FeedInit
    /\ [][FeedNext]_vars
    /\ \A f \in Feeds : WF_vars(FThreadStep(f)) /\ WF_vars(FStopStep(f))

\* ------------------------------------------------------------------------
\* Claims about the ladder
\* ------------------------------------------------------------------------

\* C2: starting from an empty ladder, the (i+1)-th consecutive add_position
\* call (i < len(layers)) appends one entry and returns
\* base_qty * layers[i].multiplier; every call after len(layers) calls returns
\* None and leaves the ladder unchanged.
C2_AddEntrySequence ==
    [][ nAdds' = nAdds + 1 =>
          IF nAdds < Len(Layers(kind))
          THEN /\ call'.qty = Some(base_qty * Layers(kind)[nAdds + 1][1])
               /\ Len(positions') = nAdds + 1
               /\ SubSeq(positions', 1, nAdds) = positions
               /\ positions'[nAdds + 1].qty = base_qty * Layers(kind)[nAdds + 1][1]
               /\ positions'[nAdds + 1].price \in AddPrices(kind)
          ELSE /\ call'.qty = None
               /\ positions' = positions ]_vars

\* C2 witness: the call after len(layers) calls was made and was refused.
C2_Witness ==
    /\ call.name = "add_position"
    /\ call.qty = None
    /\ nAdds = Len(Layers(kind)) + 1
    /\ Len(positions) = Len(Layers(kind))
    /\ base_qty > 1

\* the cumulative reverse fraction (bp) of the layers up to and including the
\* one at 0-based index layer_idx
CumulativeReverse(k, layer_idx) == SumReverse(Layers(k), layer_idx + 1)

\* C3 (as claimed): should_add_position is true on an empty ladder, false on
\* a full one, and otherwise true exactly when the adverse move fraction is
\* >= the cumulative reverse fraction up to and including the next layer; it
\* never modifies the ladder.
C3_ShouldAddCumulative ==
    [][ \A e \in AddPrices(kind), c \in TickPrices(kind), d \in Directions :
          LShouldAddPosition(e, c, d) =>
            /\ positions' = positions
            /\ trailing_peak' = trailing_peak
            /\ call'.ret =
                 IF positions = << >> THEN TRUE
                 ELSE IF Len(positions) >= Len(Layers(kind)) THEN FALSE
                 ELSE IF d = 1
                      THEN (e - c) * 10000 >= CumulativeReverse(kind, Len(positions)) * e
                      ELSE (c - e) * 10000 >= CumulativeReverse(kind, Len(positions)) * e ]_vars

\* C4: check_take_profit returns True only if an earlier call since the reset
\* saw pnl_pct reach the trigger and returned False (which set the peak), and
\* pnl_pct is now at least trail_pct below the recorded peak; the call that
\* first reaches the trigger returns False and records the peak.
C4_TakeProfitOnlyAfterArming ==
    [][ call'.name = "check_take_profit" =>
          /\ call'.ret =>
                /\ triggered
                /\ trailing_peak # None
                /\ trailing_peak' # None
                /\ \A c \in TickPrices(kind), d \in Directions :
                      LCheckTakeProfit(c, d) =>
                         PnlPct(positions, c, d)
                            <= trailing_peak'[1] - TpRules(kind)[Len(positions)][2]
          /\ (~triggered /\ triggered') =>
                (~call'.ret /\ trailing_peak = None /\ trailing_peak' # None) ]_vars

\* C4 witness: a take-profit exit was signalled.
C4_Witness ==
    /\ call.name = "check_take_profit"
    /\ call.ret = TRUE
    /\ triggered

\* C5 (as claimed): once the peak is set, every later check_take_profit call
\* raises it to max(peak, pnl_pct) and returns True whenever
\* pnl_pct <= peak - trail_pct, also when pnl_pct is below the trigger.
C5_ArmedExitBelowTrigger ==
    [][ \A c \in TickPrices(kind), d \in Directions :
          (/\ LCheckTakeProfit(c, d)
           /\ trailing_peak # None
           /\ positions # << >>) =>
            LET pnl_pct == PnlPct(positions, c, d)
                np == Max(trailing_peak[1], pnl_pct)
            IN  /\ trailing_peak' = Some(np)
                /\ (pnl_pct <= np - TpRules(kind)[Len(positions)][2]) => call'.ret ]_vars

\* C6: trailing_peak, once set, stays set and never decreases across
\* check_take_profit, should_add_position and add_position calls; only
\* reset() unsets it.
C6_PeakMonotone ==
    [][ (trailing_peak # None /\ call'.name # "reset") =>
          (trailing_peak' # None /\ trailing_peak'[1] >= trailing_peak[1]) ]_vars

\* C6 witness: a set peak was raised by a later check_take_profit and then
\* survived an add_position call.
C6_Witness ==
    /\ trailing_peak # None
    /\ positions # << >>
    /\ trailing_peak[1] > TpRules(kind)[1][1]
    /\ call.name = "add_position"
    /\ call.qty # None

\* C36: a check_take_profit call that returns True saw a pnl fraction at or
\* above the trigger of the current layer and at least trail_pct below the
\* recorded peak, so the recorded peak is at least tp_pct + trail_pct.
C36_ExitAtOrAboveTrigger ==
    /\ []((call.name = "check_take_profit" /\ call.ret) =>
             /\ positions # << >>
             /\ trailing_peak # None
             /\ trailing_peak[1] >= TpRules(kind)[Len(positions)][1]
                                       + TpRules(kind)[Len(positions)][2])
    /\ [][ (call'.name = "check_take_profit" /\ call'.ret) =>
             \A c \in TickPrices(kind), d \in Directions :
                LCheckTakeProfit(c, d) =>
                   /\ PnlPct(positions, c, d) >= TpRules(kind)[Len(positions)][1]
                   /\ PnlPct(positions, c, d) <=
                         trailing_peak'[1] - TpRules(kind)[Len(positions)][2] ]_vars

\* C36 witness: on a ladder of two or more entries a call returned True with
\* the peak above tp_pct + trail_pct of the layer.
C36_Witness ==
    /\ call.name = "check_take_profit"
    /\ call.ret
    /\ Len(positions) >= 2
    /\ trailing_peak # None
    /\ trailing_peak[1] > TpRules(kind)[Len(positions)][1] + TpRules(kind)[Len(positions)][2]


\* C37 (as claimed): a peak latched at an earlier layer never triggers an exit
\* at a later one: the first check_take_profit call after an add_position
\* call that appended an entry does not return True, no call since that add
\* having seen the trigger reached.
C37_NoExitOnPeakOfEarlierLayer ==
    [][ (/\ call.name = "add_position"
         /\ call.qty # None
         /\ call'.name = "check_take_profit") => ~call'.ret ]_vars


\* ------------------------------------------------------------------------
\* Claims about the live controller and the order manager
\* ------------------------------------------------------------------------

\* C1 (as claimed): a directional signal seen in SIGNAL while a position is
\* open submits no order: an order placed for an intent queued by SIGNAL is
\* being placed or awaited only while the controller is flat.
C1_NoOrderFromSignalWhileOpen ==
    (intent_src = "signal" /\ pc \in {"place", "poll"} /\ Len(port_log) > 0) => position = 0

\* C8: a submission calls place_futures_market_order until the first call
\* that succeeds and at most max_retries times: it returns after k calls
\* exactly when the first k-1 raised and the k-th succeeded, and it raises
\* after exactly max_retries calls that all raised.
C8_SubmitRetries ==
    LET n == Len(port_log)
        AllRaised(k) == \A i \in 1..k : port_log[i] = "raise"
    IN  /\ n <= max_retries
        /\ submit_ret = "returned" => (n >= 1 /\ port_log[n] = "ok" /\ AllRaised(n - 1))
        /\ submit_ret = "raised" =>
              (n = max_retries /\ AllRaised(n) /\ order_state = "none")
        /\ submit_ret = "none" => (AllRaised(n) /\ n < max_retries /\ (n > 0 => pc = "place"))
        /\ pc = "place" <=> (submit_ret = "none" /\ state_machine = "oms" /\ attempt = n
                              /\ oms_action # "none" /\ pc \notin {"loop", "off"})

\* C8 witness: the port failed twice and then succeeded: 3 calls, a response.
C8_Witness ==
    /\ submit_ret = "returned"
    /\ port_log = << "raise", "raise", "ok" >>
    /\ pc = "poll"

\* C9 (as claimed): a submission that failed after all retries leaves the
\* controller running, back in SIGNAL.
C9_SubmissionFailedFallsBack ==
    submit_ret = "raised" => (pc = "loop" /\ state_machine = "signal" /\ crash = "")

\* C10: wait_order_filled returns True only on a poll that read a filled
\* status; a poll that reads a terminal non-fill status ends the wait at once
\* with False: no further poll, no cancel request.
C10_WaitReturns ==
    /\ wait_ret = "true" => last_reply \in FilledStatuses
    /\ last_reply \in {"canceled", "cancelled", "failed", "rejected"} =>
          (wait_ret = "false" /\ pc # "poll" /\ cancels = 0)
    /\ pc = "poll" => wait_ret = "none"

\* C10 witness: after a poll that read a non-terminal status, a poll read
\* 'rejected' and the wait returned False without a cancel request.
C10_Witness ==
    /\ last_reply = "rejected"
    /\ wait_ret = "false"
    /\ polls >= 1
    /\ cancels = 0

\* C11: when the timeout of wait_order_filled elapses with no terminal status
\* read, exactly one cancel request is issued and False is returned, whether
\* the cancel request succeeded or failed; a wait ended by a status read
\* issues no cancel request.
C11_TimeoutCancelsOnce ==
    /\ cancels <= 1
    /\ crash # "CancelFailed"
    /\ cancels = 1 => (/\ wait_ret = "false"
                       /\ pc = "loop"
                       /\ last_reply \notin (FilledStatuses \cup NonFillStatuses))
    /\ (wait_ret = "false" /\ last_reply \notin NonFillStatuses) => cancels = 1

\* C11 witness: the wait timed out, the cancel request failed (the order is
\* still live at the exchange), and the wait returned False.
C11_Witness ==
    /\ cancels = 1
    /\ wait_ret = "false"
    /\ order_state = "live"
    /\ pc = "loop"
    /\ state_machine = "signal"

\* C12: when the order executed in OMS is not filled (timeout, cancel or a
\* terminal non-fill status) or no order id is obtained, the controller returns
\* to SIGNAL with the ladder entries, the trailing peak, the position and the
\* entry price unchanged.
C12_NotFilledLeavesLadder ==
    [][ (\/ (pc = "place" /\ pc' = "loop")
         \/ (pc = "poll" /\ pc' = "loop" /\ last_reply' \notin FilledStatuses)) =>
          (/\ state_machine' = "signal"
           /\ UNCHANGED << positions, trailing_peak, position, entry_price >>) ]_vars

\* C12 witness: a close order queued by RMS was not filled and the controller
\* is back in SIGNAL with the position still open.
C12_Witness ==
    /\ wait_ret = "false"
    /\ pc = "loop"
    /\ state_machine = "signal"
    /\ oms_action \in {"close_long", "close_short"}
    /\ position # 0
    /\ positions # << >>
    /\ trailing_peak # None

\* C13: when an order with an open intent is filled while the controller is
\* flat, the ladder is reset and then holds exactly one entry (price = the
\* queued order price, qty = base qty * layers[0].multiplier), the position
\* equals the intent's direction, and the controller moves to RMS.
C13_OpenFillSeedsLadder ==
    [][ (/\ pc = "poll"
         /\ wait_ret' = "true"
         /\ oms_action \in {"long", "short"}
         /\ position = 0) =>
          (/\ positions' = << [price |-> oms_price,
                               qty |-> base_qty * Layers(kind)[1][1]] >>
           /\ trailing_peak' = None
           /\ position' = (IF oms_action = "long" THEN 1 ELSE -1)
           /\ entry_price' = oms_price
           /\ state_machine' = "rms"
           /\ pc' = "loop") ]_vars

\* C13 witness: the order of the second directional signal of a run was
\* filled while flat: the ladder holds the one new entry and no peak.
C13_Witness ==
    /\ n_signals = 2
    /\ wait_ret = "true"
    /\ state_machine = "rms"
    /\ position # 0
    /\ Len(positions) = 1
    /\ trailing_peak = None
    /\ positions[1].price = oms_price

\* C14 (as claimed): a filled close order resets the ladder, so whenever the
\* live controller is flat the ladder holds no entries and no trailing peak.
C14_FlatHasNoLadder ==
    position = 0 => (positions = << >> /\ trailing_peak = None)

\* C15 (as claimed): in RMS, whenever should_add_position returns True for
\* the latest price, the controller queues an add order in the direction of
\* the position, sized base qty * layers[len(entries)].multiplier, and goes
\* to OMS.
C15_AddIntentQueued ==
    [][ (/\ Rms
         /\ ~ShouldAddTypeError(kind, positions, entry_price, last_price)
         /\ ShouldAddPosition(kind, positions, entry_price, last_price, position)) =>
          (/\ pc' = "loop"
           /\ state_machine' = "oms"
           /\ oms_action' = (IF position = 1 THEN "long" ELSE "short")
           /\ oms_qty' = base_qty * Layers(kind)[Len(positions) + 1][1]) ]_vars

\* the largest leverage the exchange client accepts
MaxLeverage == 125

\* RMS is about to run with no add due and the latest price beyond 1/leverage
\* against the average entry (for the largest leverage an account can have)
LiquidationDue ==
    /\ pc = "loop"
    /\ state_machine = "rms"
    /\ last_price # NoPrice
    /\ positions # << >>
    /\ ~ShouldAddPosition(kind, positions, entry_price, last_price, position)
    /\ (SumNotional(positions) - last_price * SumQty(positions)) * position * MaxLeverage
          > SumNotional(positions)

\* C16 (as claimed): in RMS, when no add is due and the latest price has
\* moved against the average entry by more than 1/leverage, the controller
\* queues a close of the whole position and goes to OMS (unless the price
\* comes back before RMS has run).
C16_LiveLiquidationQueued ==
    LiquidationDue ~>
       (\/ (state_machine = "oms" /\ oms_action \in {"close_long", "close_short"})
        \/ ~LiquidationDue)

\* C17 (as claimed): when an add order is filled while the ladder already
\* holds len(layers) entries, the controller does not add but closes the
\* position: a close is queued or the position is flat, and the controller
\* does not go on in RMS with the position open.
C17_ExhaustedForcesClose ==
    [][ (/\ pc = "poll"
         /\ wait_ret' = "true"
         /\ oms_action \in {"long", "short"}
         /\ position # 0
         /\ Len(positions) >= Len(Layers(kind))) =>
          (/\ positions' = positions
           /\ \/ position' = 0
              \/ (state_machine' = "oms" /\ oms_action' \in {"close_long", "close_short"})) ]_vars

\* C20 (as claimed): the quantity the ladder records for a filled open or add
\* order equals the quantity submitted for it, so the ladder's total is the
\* total of the filled orders of the open position.
C20_LadderQtyIsFilledQty ==
    [][ (/\ pc = "poll"
         /\ wait_ret' = "true"
         /\ oms_action \in {"long", "short"}) =>
          SumQty(positions') = (IF position = 0 THEN 0 ELSE SumQty(positions)) + oms_qty ]_vars

\* C18 (as claimed): the backtest RiskManager and the live RiskManager are
\* the same function: on the same ladder (here one both reach by the same
\* calls: at most one entry, no peak) every call with the same arguments
\* returns the same result and leaves the same ladder in both.
C18_LaddersAgree ==
    (Len(positions) <= 1 /\ trailing_peak = None) =>
       /\ \A p \in AddPrices("online") \cup AddPrices("backtest") :
             /\ AddPositionQty("online", positions, base_qty)
                  = AddPositionQty("backtest", positions, base_qty)
             /\ AddPositionLadder("online", positions, p, base_qty)
                  = AddPositionLadder("backtest", positions, p, base_qty)
       /\ \A e \in AddPrices("online") \cup AddPrices("backtest"),
             c \in TickPrices("online") \cup TickPrices("backtest"), d \in Directions :
             /\ ShouldAddPosition("online", positions, e, c, d)
                  = ShouldAddPosition("backtest", positions, e, c, d)
             /\ CheckTakeProfit("online", positions, trailing_peak, c, d)
                  = CheckTakeProfit("backtest", positions, trailing_peak, c, d)

\* C19: in the live loop and in the backtest the ladder never holds more
\* entries than the layer table has rows, and every entry appended is sized
\* by the layer whose index is the number of entries before it.
C19_LayerIndexIsEntryCount ==
    /\ [](Len(positions) <= Len(Layers(kind)))
    /\ [][ (positions' # positions /\ positions' # << >>) =>
             LET n == Len(positions') IN
             /\ n <= Len(Layers(kind))
             /\ positions'[n].qty = base_qty * Layers(kind)[n][1]
             /\ n = 1 \/ SubSeq(positions', 1, n - 1) = positions ]_vars

\* C19 witness: the backtest ladder is full and the bar after the last add
\* left it so.
C19_Witness ==
    /\ kind = "backtest"
    /\ Len(positions) = Len(Layers(kind))
    /\ bt_event = "hold"
    /\ current_position # 0

\* C27 (as claimed): in the live and in the backtest ladder the adverse-move
\* threshold of should_add_position does not decrease from one layer index
\* to the next: with the ladder holding n entries, the threshold applied now
\* (layer index n) is at least the threshold that was applied before the last
\* entry was added (layer index n - 1).
C27_ThresholdNonDecreasing ==
    (positions # << >> /\ Len(positions) < Len(Layers(kind))) =>
        ReversePct(kind, Len(positions) - 1) <= ReversePct(kind, Len(positions))


\* the reference price as claimed, as a pair <<notional, qty>>: all entries
\* while the index of the last layer is <= 6, the first and the last entry
\* beyond
ClaimedReference(ps) ==
    IF Len(ps) - 1 <= 6
    THEN << SumNotional(ps), SumQty(ps) >>
    ELSE << ps[1].price * ps[1].qty + ps[Len(ps)].price * ps[Len(ps)].qty,
            ps[1].qty + ps[Len(ps)].qty >>

\* the pnl fraction (bp, floored) of price cur against the claimed reference
ClaimedPnl(ps, cur, dir) ==
    LET b == ClaimedReference(ps) IN
    FloorBp(IF dir = 1 THEN cur * b[2] - b[1] ELSE b[1] - cur * b[2], b[1])

\* a bar of the backtest that reached `risk_manager.check_take_profit(
\* current_price, current_position)` (neither liquidated nor added)
BarChecksTakeProfit ==
    bt_pc = "run" /\ current_position # 0 /\ bt_event' \in {"hold", "take_profit"}

\* an iteration of RMS in the live loop whose check_take_profit call moved
\* the peak or queued the close
RmsTakeProfitActs ==
    /\ pc = "loop"
    /\ state_machine = "rms"
    /\ pc' = "loop"
    /\ trailing_peak' # trailing_peak \/ state_machine' = "oms"

\* what check_take_profit does according to the claim on ladder ps with peak
\* pk, for price cur and direction dir: [ret, peak]
ClaimedTakeProfit(k, ps, pk, cur, dir) ==
    LET pnl == ClaimedPnl(ps, cur, dir)
        rule == TpRules(k)[Len(ps)]
    IN  IF pnl < rule[1] THEN [ret |-> FALSE, peak |-> pk]
        ELSE IF pk = None THEN [ret |-> FALSE, peak |-> Some(pnl)]
        ELSE [ret |-> pnl <= Max(pk[1], pnl) - rule[2], peak |-> Some(Max(pk[1], pnl))]

\* C28: in the backtest and in the live loop, check_take_profit applies the
\* rule at the index of the last layer, which is within the rule table, to
\* the pnl fraction against the quantity-weighted average of all entries while
\* that index is <= 6 and of the first and last entry beyond: the bar exits
\* (the close is queued) exactly when the claimed computation returns True,
\* and otherwise the peak is the claimed one.
C28_TakeProfitReference ==
    [][ /\ BarChecksTakeProfit =>
             LET r == ClaimedTakeProfit(kind, positions, trailing_peak, last_close',
                                        current_position)
             IN  /\ Len(positions) \in 1..Len(TpRules(kind))
                 /\ (bt_event' = "take_profit") = r.ret
                 /\ bt_event' = "hold" => trailing_peak' = r.peak
        /\ RmsTakeProfitActs =>
             LET r == ClaimedTakeProfit(kind, positions, trailing_peak, last_price, position)
             IN  /\ Len(positions) \in 1..Len(TpRules(kind))
                 /\ (state_machine' = "oms") = r.ret
                 /\ trailing_peak' = r.peak ]_vars

\* C28 witness: on a backtest ladder of more than seven entries a bar armed
\* the peak with the pnl fraction against the first and last entry, which is
\* not the fraction against all entries.
C28_Witness ==
    /\ bt_event = "hold"
    /\ Len(positions) > 7
    /\ trailing_peak = Some(ClaimedPnl(positions, last_close, current_position))
    /\ trailing_peak[1] #
          FloorBp((last_close * SumQty(positions) - SumNotional(positions)) * current_position,
                  SumNotional(positions))

\* the states of an order that is neither filled nor cancelled
OutstandingStates == {"live", "partially_filled"}

\* C29 (as claimed): whenever the controller leaves the Order state, the
\* order it submitted is in a terminal state at the exchange, so that no
\* Signal evaluation and no Risk tick runs while the order is outstanding.
C29_LeavesOrderOnlyWhenTerminal ==
    [][ (pc # "off" /\ state_machine = "oms" /\ state_machine' # "oms") =>
           order_state' \notin OutstandingStates ]_vars


\* C34: wait_order_filled ends, and nothing but a terminal status read or the
\* timeout ends it: a status query that raised, or gave a non-terminal or a
\* malformed status, counts as one more poll without a fill, no exception
\* leaves the call, and the call returns at the timeout with one cancel
\* request.
C34_WaitTerminates ==
    /\ [][ pc = "poll" =>
             /\ pc' \in {"poll", "loop"}
             /\ crash' = ""
             /\ (pc' = "poll" /\ (last_reply' # last_reply \/ polls' # polls)) =>
                    (polls' = polls + 1 /\ wait_ret' = "none")
             /\ pc' = "loop" =>
                    \/ (last_reply' \in FilledStatuses /\ wait_ret' = "true")
                    \/ (last_reply' \in NonFillStatuses /\ wait_ret' = "false")
                    \/ (cancels' = cancels + 1 /\ polls >= 1 /\ wait_ret' = "false"
                          /\ last_reply' = last_reply) ]_vars
    /\ (pc = "poll") ~> (pc = "loop")

\* C34 witness: the last of two polls raised, the timeout ended the wait with
\* False and one cancel request, and the controller runs on.
C34_Witness ==
    /\ last_reply = "exception"
    /\ polls >= 2
    /\ wait_ret = "false"
    /\ cancels = 1
    /\ pc = "loop"
    /\ crash = ""


\* C38 (as claimed): an open position is always monitored: when the
\* controller is in SIGNAL with a position open, it gets to RMS again (or the
\* position is closed, or the controller has stopped), whatever the strategy
\* says.
C38_OpenPositionMonitored ==
    (pc = "loop" /\ state_machine = "signal" /\ position # 0)
       ~> (state_machine = "rms" \/ position = 0 \/ pc = "crashed")


\* C39: the ladder never diverges from the exchange: once wait_order_filled
\* has reported not-filled and the controller has gone back to SIGNAL treating
\* the order as not having happened, the order is not filled at the exchange,
\* then or later, whatever the interleaving of fills, polls and the cancel.
C39_NotFilledNeverFilled ==
    (wait_ret = "false" /\ pc = "loop" /\ state_machine = "signal") =>
        order_state # "filled"

\* C40: the controller never uses an undefined last price: whenever it queues
\* an order intent from a signal, or its Risk check acts (queues a close, moves
\* the trailing peak or raises), the last price it read was written by a
\* received tick and is not the initial None.
C40_LastPriceDefinedWhenUsed ==
    [][ (/\ pc = "loop"
         /\ state_machine \in {"signal", "rms"}
         /\ \/ state_machine' # state_machine
            \/ pc' = "crashed"
            \/ trailing_peak' # trailing_peak) =>
          last_price # NoPrice ]_vars

\* ------------------------------------------------------------------------
\* Claims about the backtest
\* ------------------------------------------------------------------------

\* a step of the bar loop that found a position open and finished the bar
BarWithPosition ==
    bt_pc = "run" /\ current_position # 0 /\ current_idx' = current_idx + 1

\* the adverse move of the bar's close from the quantity-weighted average
\* entry, as a fraction of that entry, times the leverage, compared with 1:
\* AdverseNum / AdverseDen is (move / average entry) * leverage
AdverseNum == (SumNotional(positions) - last_close' * SumQty(positions))
                 * current_position * leverage

AdverseDen == SumNotional(positions)

\* C7 (as stated): a position is liquidated on a bar iff the close has moved
\* against the quantity-weighted average entry by strictly more than
\* 1/leverage; at exactly 1/leverage it is not liquidated.
C7_LiquidationIffStrictlyBeyond ==
    [][BarWithPosition =>
          ((bt_event' = "liquidation") <=> (AdverseNum > AdverseDen))]_vars

\* C7 (amended): a position is liquidated on a bar iff the close has moved
\* against the quantity-weighted average entry by 1/leverage or more; at
\* exactly 1/leverage it is liquidated.
C7_LiquidationIffAtOrBeyond ==
    [][BarWithPosition =>
          ((bt_event' = "liquidation") <=> (AdverseNum >= AdverseDen))]_vars

\* a long position liquidated at a close of exactly averageEntry * (1 - 1/leverage)
C7_Witness ==
    /\ bt_event = "liquidation"
    /\ trade_records # << >>
    /\ LET r == trade_records[Len(trade_records)] IN
       /\ r.position = 1
       /\ r.exit_price * r.average_entry[2] * leverage = r.average_entry[1] * (leverage - 1)
       /\ r.pnl = (0 - r.total_qty) * leverage * 10000

\* sum(t['pnl'] for t in self.trade_records)
RECURSIVE SumPnl(_)
SumPnl(rs) == IF rs = << >> THEN 0 ELSE Head(rs).pnl + SumPnl(Tail(rs))

\* C21 (as claimed): at the end of a run the sum of pnl over the trade
\* records equals the realized_pnl of the last equity point, also when the
\* position still open after the last bar was closed by the run.
C21_RecordsSumIsLastEquityRealized ==
    bt_pc = "done" => SumPnl(trade_records) = equity_last.realized_pnl

\* the step that ends the bar loop (lines 202-217)
RunEnds == bt_pc = "run" /\ bt_pc' = "done"

\* C22: when the loop ends with a position open, exactly one trade record is
\* appended for it, with the close of the last bar as exit price, the sum of
\* the ladder quantities as total quantity and the index of the last bar;
\* when the loop ends flat the trade records are left as they are.
C22_FinalCloseRecordedOnce ==
    [][ RunEnds =>
          IF current_position # 0
          THEN /\ Len(trade_records') = Len(trade_records) + 1
               /\ SubSeq(trade_records', 1, Len(trade_records)) = trade_records
               /\ LET r == trade_records'[Len(trade_records')] IN
                  /\ r.exit_price = last_close
                  /\ r.total_qty = SumQty(positions)
                  /\ r.position = current_position
                  /\ r.exit_idx = n_bars - 1
          ELSE trade_records' = trade_records ]_vars

\* C22 witness: a run ended with a ladder of two or more entries open and
\* recorded it at the last close, which differs from the entry price.
C22_Witness ==
    /\ bt_pc = "done"
    /\ bt_event = "final_close"
    /\ Len(positions) >= 2
    /\ last_close # bt_entry_price
    /\ LET r == trade_records[Len(trade_records)] IN
       /\ r.exit_price = last_close
       /\ r.total_qty = SumQty(positions)

\* no ladder entry and no open direction
BacktestFlat == positions = << >> /\ current_position = 0

\* C23 (as claimed): the backtest ladder is empty and no direction is open
\* when the run starts, and again when the run has ended with a forced final
\* close.
C23_FlatAtStartAndAfterFinalClose ==
    /\ bt_pc = "start" => BacktestFlat
    /\ (bt_pc = "done" /\ bt_event = "final_close") => BacktestFlat

\* C24: a run over fewer than 6000 bars ends in the input error with no
\* position opened, no trade recorded and no equity point written; in a run
\* over a longer series the signal is first evaluated when 6000 bars have been
\* read, and a position is opened only on a bar after the first 6000.
C24_WarmupIsPrecondition ==
    /\ []((n_bars < Warmup /\ bt_pc # "off") =>
             /\ bt_pc \in {"start", "error"}
             /\ BacktestFlat
             /\ trade_records = << >>
             /\ equity_n = 0
             /\ current_signal = 0)
    /\ [][ /\ current_signal' # current_signal => (n_bars >= Warmup /\ current_idx' >= Warmup)
           /\ (current_position = 0 /\ current_position' # 0) =>
                 (n_bars >= Warmup /\ current_idx >= Warmup /\ equity_n >= Warmup) ]_vars

\* C24 witness: a run over 5999 bars has ended in the error, with nothing
\* opened or recorded.
C24_Witness ==
    /\ bt_pc = "error"
    /\ n_bars = Warmup - 1
    /\ BacktestFlat
    /\ trade_records = << >>
    /\ equity_n = 0

\* a step of the bar loop that appended an entry to the ladder (an open or
\* an add)
EntryAppended == bt_pc = "run" /\ positions' # positions /\ positions' # << >>

\* C25 (as claimed): every entry of the backtest ladder, the opening one and
\* each added one, is priced at the close of the 1-minute bar on which it is
\* appended.
C25_FillsAtBarClose ==
    [][ EntryAppended => positions'[Len(positions')].price = last_close' ]_vars

\* C26: a bar that finds the position at or beyond its liquidation price
\* appends exactly one trade record whose pnl is -total_qty * leverage
\* whatever the exit price, adds that pnl to realized_pnl, and leaves the
\* position flat with the ladder discarded.
C26_LiquidationRecord ==
    [][ (BarWithPosition /\ AdverseNum >= AdverseDen) =>
          /\ Len(trade_records') = Len(trade_records) + 1
          /\ SubSeq(trade_records', 1, Len(trade_records)) = trade_records
          /\ LET r == trade_records'[Len(trade_records')] IN
             /\ r.pnl = (0 - SumQty(positions)) * leverage * 10000
             /\ r.total_qty = SumQty(positions)
             /\ r.exit_price = last_close'
             /\ r.position = current_position
             /\ realized_pnl' = realized_pnl + r.pnl
          /\ current_position' = 0
          /\ positions' = << >>
          /\ bt_entry_price' = NoPrice ]_vars

\* C26 witness: a long position of more than one entry was liquidated at
\* leverage 2 below its liquidation price; the record carries
\* -total_qty * leverage and the run is flat.
C26_Witness ==
    /\ bt_event = "liquidation"
    /\ leverage = 2
    /\ BacktestFlat
    /\ LET r == trade_records[Len(trade_records)] IN
       /\ r.position = 1
       /\ r.total_qty > base_qty
       /\ r.exit_price * r.average_entry[2] * leverage < r.average_entry[1] * (leverage - 1)
       /\ r.pnl = (0 - r.total_qty) * 20000
       /\ realized_pnl = SumPnl(trade_records)

\* a step of the run that closes the open position: a bar that leaves it
\* flat (take-profit, liquidation, forced exit) or the end of the loop
PositionCloses ==
    bt_pc = "run" /\ current_position # 0 /\ (current_position' = 0 \/ bt_pc' = "done")

\* C30: in the backtest every close of a position appends exactly one trade
\* record behind the earlier ones, which stay as they were, and no other
\* step touches the records; a position is opened only while flat, so that
\* during the run the positions opened are the trades recorded plus the one
\* open position, if any, and after the run they are the trades recorded.
C30_OneRecordPerPosition ==
    /\ [][ bt_pc = "run" =>
             IF PositionCloses
             THEN /\ Len(trade_records') = Len(trade_records) + 1
                  /\ SubSeq(trade_records', 1, Len(trade_records)) = trade_records
             ELSE trade_records' = trade_records ]_vars
    /\ [][ n_opened' # n_opened =>
             (BacktestFlat /\ Len(positions') = 1 /\ n_opened' = n_opened + 1) ]_vars
    /\ [](bt_pc = "run" =>
             n_opened = Len(trade_records) + (IF current_position # 0 THEN 1 ELSE 0))
    /\ [](bt_pc = "done" => n_opened = Len(trade_records))

\* C30 witness: a run that opened three positions has ended with the last
\* one closed by the final close, after a liquidation earlier in the run.
C30_Witness ==
    /\ bt_pc = "done"
    /\ bt_event = "final_close"
    /\ n_opened = 3
    /\ Len(trade_records) = 3
    /\ \E i \in 1..2 : trade_records[i].pnl = (0 - trade_records[i].total_qty) * leverage * 10000

\* C31 (as claimed): a run whose leverage is zero or negative is rejected
\* when it starts: it never gets past the start, processes no bar, opens no
\* position and records no trade.
C31_InvalidLeverageRejectedAtStart ==
    (leverage <= 0 /\ bt_pc \notin {"off", "start"}) =>
        /\ bt_pc = "error"
        /\ current_idx = 0
        /\ n_opened = 0
        /\ BacktestFlat
        /\ trade_records = << >>

\* the add-entry condition holds for the bar's close on the open ladder
AddEntryDue ==
    ShouldAddPosition(kind, positions, bt_entry_price, last_close', current_position)

\* C33 (as claimed): on a bar with an open position the add-entry check comes
\* before the liquidation check and at most one check acts: when the
\* add-entry condition holds the entry is added and no trade is recorded on
\* that bar, also when the liquidation condition holds too.
C33_AddEntryBeforeLiquidation ==
    [][ (BarWithPosition /\ AddEntryDue) =>
           /\ bt_event' = "add"
           /\ Len(positions') = Len(positions) + 1
           /\ trade_records' = trade_records ]_vars


\* the unrealized pnl (1/10000 lot) of ladder ps at price cur against the
\* reference price check_take_profit uses for ps:
\* (cur - reference) / reference * position * total_qty * leverage
ClaimedUnrealized(ps, cur, pos, L) ==
    LET b == ClaimedReference(ps) IN
    FloorBp(cur * b[2] - b[1], b[1]) * pos * SumQty(ps) * L

\* C35 (as claimed): the last equity point has total_pnl = realized_pnl +
\* unrealized_pnl, unrealized_pnl = 0 when flat, and with a position open the
\* unrealized pnl of the bar's close against the reference price of
\* check_take_profit (all entries up to layer index 6, first and last entry
\* beyond).
C35_UnrealizedUsesTakeProfitReference ==
    /\ equity_last.total_pnl = equity_last.realized_pnl + equity_last.unrealized_pnl
    /\ current_position = 0 => equity_last.unrealized_pnl = 0
    /\ (current_position # 0 /\ bt_pc \in {"run", "done"}) =>
          equity_last.unrealized_pnl =
             ClaimedUnrealized(positions, last_close, current_position, leverage)


\* ------------------------------------------------------------------------
\* Claims about the feeds
\* ------------------------------------------------------------------------

\* C32 (as claimed): for every interleaving of stop() with the thread of
\* start(), stop() eventually returns, and the feed thread has ended when it
\* has returned.
C32_StopReturnsWithThreadEnded ==
    \A f \in Feeds :
       (f_stop[f] # "idle") ~> (f_stop[f] = "returned" /\ f_thread[f] = "ended")

====
